---------------------------- MODULE Spec2Model ----------------------------
(* A model of the base60 codec of src/src/index.ts.                        *)
(*                                                                         *)
(* Strings are sequences of UTF-16 code units (numbers), byte arrays are   *)
(* sequences of numbers in 0..255, and a JavaScript bigint is a sign and a *)
(* magnitude held as little-endian limbs, so that values of 128, 130 and   *)
(* 200 bits are computed exactly.  The codec keeps no state between calls; *)
(* the state of the model is the last call made on the exported codec      *)
(* object: the operation, its arguments and what it returned or threw.     *)
EXTENDS Integers, Sequences, FiniteSets, TLC

VARIABLES op, arg, pad, ret, src

vars == <<op, arg, pad, ret, src>>

-----------------------------------------------------------------------------
(* Bounds of the inputs the model enumerates.                              *)

MaxBits == 200
MaxDigits == 23
MaxPad == 7
MaxPadDigits == 4
MaxInt64Bits == 65
MaxTextLen == 24
MaxBytes == 4
MaxCmpLen == 2
MaxIdLen == 34

-----------------------------------------------------------------------------
(* Values every operation shares.                                          *)

undefined == <<>>

Ok(v) == [ok |-> TRUE, val |-> v, err |-> ""]

Throw(msg) == [ok |-> FALSE, val |-> <<>>, err |-> msg]

Rep(ch, n) == [i \in 1..n |-> ch]

padStart(text, length, ch) ==
    IF Len(text) >= length THEN text ELSE Rep(ch, length - Len(text)) \o text

-----------------------------------------------------------------------------
(* bigint: arbitrary precision, sign and magnitude.                        *)

LimbBase == 100000

RECURSIVE MulAddLimbs(_, _, _)
MulAddLimbs(x, m, c) ==
    IF x = <<>>
    THEN (IF c = 0 THEN <<>>
          ELSE <<c % LimbBase>> \o MulAddLimbs(x, m, c \div LimbBase))
    ELSE LET t == Head(x) * m + c
         IN  <<t % LimbBase>> \o MulAddLimbs(Tail(x), m, t \div LimbBase)

RECURSIVE DivRemLimbs(_, _)
DivRemLimbs(x, d) ==
    IF x = <<>> THEN [q |-> <<>>, r |-> 0]
    ELSE LET hi == DivRemLimbs(Tail(x), d)
             t  == hi.r * LimbBase + Head(x)
             qd == t \div d
         IN  [q |-> IF hi.q = <<>> /\ qd = 0 THEN <<>> ELSE <<qd>> \o hi.q,
              r |-> t % d]

RECURSIVE LessLimbs(_, _)
LessLimbs(x, y) ==
    IF Len(x) # Len(y) THEN Len(x) < Len(y)
    ELSE IF x = <<>> THEN FALSE
    ELSE LET n == Len(x)
         IN  IF x[n] # y[n] THEN x[n] < y[n]
             ELSE LessLimbs(SubSeq(x, 1, n - 1), SubSeq(y, 1, n - 1))

BigOf(n) == [neg |-> FALSE, mag |-> MulAddLimbs(<<>>, 1, n)]

BigNeg(v) == [neg |-> v.mag # <<>>, mag |-> v.mag]

BigIsZero(v) == v.mag = <<>>

BigLess(a, b) ==
    IF a.neg # b.neg THEN a.neg
    ELSE IF a.neg THEN LessLimbs(b.mag, a.mag)
    ELSE LessLimbs(a.mag, b.mag)

\* v * m + a for a non-negative v and small non-negative m, a
BigMulAdd(v, m, a) == [neg |-> FALSE, mag |-> MulAddLimbs(v.mag, m, a)]

\* bigint division truncates toward zero; the remainder takes the dividend's sign
BigDiv(v, d) ==
    LET q == DivRemLimbs(v.mag, d).q IN [neg |-> v.neg /\ q # <<>>, mag |-> q]

BigMod(v, d) ==
    LET r == DivRemLimbs(v.mag, d).r IN IF v.neg THEN 0 - r ELSE r

-----------------------------------------------------------------------------
(* The constants of the module.                                            *)

FIXED_LEN_UUID == 22
FIXED_LEN_ULID == 22
FIXED_LEN_INT64 == 11

\* "0123456789ABCDEFGHIJKLMNPQRSTUVWXYZabcdefghijkmnopqrstuvwxyz"
alphabet ==
    << 48, 49, 50, 51, 52, 53, 54, 55, 56, 57,
       65, 66, 67, 68, 69, 70, 71, 72, 73, 74, 75, 76, 77, 78,
       80, 81, 82, 83, 84, 85, 86, 87, 88, 89, 90,
       97, 98, 99, 100, 101, 102, 103, 104, 105, 106, 107,
       109, 110, 111, 112, 113, 114, 115, 116, 117, 118, 119, 120, 121, 122 >>

\* "0123456789ABCDEFGHJKMNPQRSTVWXYZ"
crockford ==
    << 48, 49, 50, 51, 52, 53, 54, 55, 56, 57,
       65, 66, 67, 68, 69, 70, 71, 72, 74, 75, 77, 78,
       80, 81, 82, 83, 84, 86, 87, 88, 89, 90 >>

base == Len(alphabet)

\* Map.get: the digit of a character, or undefined
MapGet(symbols, ch) ==
    IF \E i \in 1..Len(symbols) : symbols[i] = ch
    THEN <<(CHOOSE i \in 1..Len(symbols) : symbols[i] = ch) - 1>>
    ELSE undefined

charToValue(ch) == MapGet(alphabet, ch)

-----------------------------------------------------------------------------
(* The helpers of createBase60Codec.                                       *)

\* leftPad without its length check
leftPadUnchecked(text, length) == Ok(padStart(text, length, alphabet[1]))

leftPad(text, length) ==
    IF Len(text) > length
    THEN Throw("Encoded value length exceeds fixed length")
    ELSE Ok(padStart(text, length, alphabet[1]))

\* one turn of the while loop with the digit appended instead of prepended
encodeStepAppending(s) ==
    IF BigLess(BigOf(0), s.v)
    THEN [v   |-> BigDiv(s.v, base),
          out |-> s.out \o <<alphabet[BigMod(s.v, base) + 1]>>]
    ELSE s

\* one turn of the while loop, s holding its variables v and out
encodeStep(s) ==
    IF BigLess(BigOf(0), s.v)
    THEN [v   |-> BigDiv(s.v, base),
          out |-> <<alphabet[BigMod(s.v, base) + 1]>> \o s.out]
    ELSE s

\* the while loop, a turn at a time
RECURSIVE encodeLoop(_)
encodeLoop(s) ==
    IF BigLess(BigOf(0), s.v)
    THEN encodeLoop(encodeStep(s))
    ELSE s.out

encodeBigInt(value, padLength) ==
    IF BigIsZero(value)
    THEN (IF padLength # undefined
          THEN leftPad(<<alphabet[1]>>, padLength[1])
          ELSE Ok(<<alphabet[1]>>))
    ELSE LET out == encodeLoop([v |-> value, out |-> <<>>])
         IN  IF padLength # undefined
             THEN leftPad(out, padLength[1])
             ELSE Ok(out)

\* one turn of the for loop, s holding the characters left, the variable v and
\* whether the loop threw
decodeStep(s) ==
    IF s.rest = <<>> \/ s.thrown THEN s
    ELSE LET d == charToValue(Head(s.rest))
         IN  IF d = undefined THEN [s EXCEPT !.thrown = TRUE]
             ELSE [rest   |-> Tail(s.rest),
                   v      |-> BigMulAdd(s.v, base, d[1]),
                   thrown |-> FALSE]

\* the for loop, a turn at a time
RECURSIVE decodeLoop(_)
decodeLoop(s) ==
    IF s.thrown THEN Throw("invalid character")
    ELSE IF s.rest = <<>> THEN Ok(s.v)
    ELSE decodeLoop(decodeStep(s))

decodeToBigInt(text) == decodeLoop([rest |-> text, v |-> BigOf(0), thrown |-> FALSE])

\* one turn of the for loop, s holding the bytes left and the variable result
bytesToBigIntStep(s) ==
    IF s.rest = <<>> THEN s
    ELSE [rest   |-> Tail(s.rest),
          result |-> BigMulAdd(s.result, 256, Head(s.rest))]

\* the for loop, a turn at a time
RECURSIVE bytesToBigIntLoop(_)
bytesToBigIntLoop(s) ==
    IF s.rest = <<>> THEN s.result
    ELSE bytesToBigIntLoop(bytesToBigIntStep(s))

\* bytesToBigInt reading the last byte as the most significant
bytesToBigIntLittleEndian(bytes) ==
    bytesToBigIntLoop([rest   |-> [i \in 1..Len(bytes) |-> bytes[Len(bytes) + 1 - i]],
                       result |-> BigOf(0)])

bytesToBigInt(bytes) == bytesToBigIntLoop([rest |-> bytes, result |-> BigOf(0)])

\* the character of a digit in Number/BigInt.prototype.toString(radix)
DigitChar(d) == IF d < 10 THEN 48 + d ELSE 97 + (d - 10)

\* Number.prototype.toString(radix) of a non-negative integer
RECURSIVE NumToString(_, _)
NumToString(n, radix) ==
    IF n < radix THEN <<DigitChar(n)>>
    ELSE NumToString(n \div radix, radix) \o <<DigitChar(n % radix)>>

\* BigInt.prototype.toString(radix) of a non-negative bigint
BigToStringStep(s, radix) ==
    IF BigIsZero(s.v) THEN s
    ELSE [v   |-> BigDiv(s.v, radix),
          out |-> <<DigitChar(BigMod(s.v, radix))>> \o s.out]

RECURSIVE BigToStringLoop(_, _)
BigToStringLoop(s, radix) ==
    IF BigIsZero(s.v) THEN s.out
    ELSE BigToStringLoop(BigToStringStep(s, radix), radix)

BigToString(v, radix) ==
    IF BigIsZero(v) THEN <<48>> ELSE BigToStringLoop([v |-> v, out |-> <<>>], radix)

\* the value of a character as a digit, 99 when it is none
DigitVal(ch) ==
    IF ch >= 48 /\ ch <= 57 THEN ch - 48
    ELSE IF ch >= 97 /\ ch <= 122 THEN ch - 97 + 10
    ELSE IF ch >= 65 /\ ch <= 90 THEN ch - 65 + 10
    ELSE 99

IsWhiteSpace(ch) == ch \in {9, 10, 11, 12, 13, 32, 160, 65279}

RECURSIVE TrimStart(_)
TrimStart(str) ==
    IF str # <<>> /\ IsWhiteSpace(Head(str)) THEN TrimStart(Tail(str)) ELSE str

RECURSIVE ParseDigits(_, _, _)
ParseDigits(str, radix, acc) ==
    IF str = <<>> \/ DigitVal(Head(str)) >= radix THEN acc
    ELSE ParseDigits(Tail(str), radix,
                     <<IF acc = <<>> THEN DigitVal(Head(str))
                       ELSE acc[1] * radix + DigitVal(Head(str))>>)

\* parseInt(str, radix): leading white space, a sign, a 0x prefix under radix 16,
\* then the longest prefix of digits; NaN when there is none
parseInt(str, radix) ==
    LET s1   == TrimStart(str)
        neg  == s1 # <<>> /\ Head(s1) = 45
        s2   == IF s1 # <<>> /\ Head(s1) \in {43, 45} THEN Tail(s1) ELSE s1
        s3   == IF radix = 16 /\ Len(s2) >= 2 /\ s2[1] = 48 /\ s2[2] \in {88, 120}
                THEN SubSeq(s2, 3, Len(s2)) ELSE s2
        digs == ParseDigits(s3, radix, <<>>)
    IN  IF digs = <<>> THEN [nan |-> TRUE, num |-> 0]
        ELSE [nan |-> FALSE, num |-> IF neg THEN 0 - digs[1] ELSE digs[1]]

\* storing a number into a Uint8Array element: NaN becomes 0, the rest wraps
ToUint8(x) == IF x.nan THEN 0 ELSE x.num % 256

\* String.prototype.substr(start, length), start counted from 0
substr(str, start, length) ==
    SubSeq(str, start + 1, IF start + length > Len(str) THEN Len(str) ELSE start + length)

\* String.prototype.slice(from, to), positions counted from 0
slice(str, from, to) ==
    SubSeq(str, from + 1, IF to > Len(str) THEN Len(str) ELSE to)

\* bytes[i] = parseInt(hex.substr(i * 2, 2), 16) for i < n
HexToBytes(hex, n) == [i \in 1..n |-> ToUint8(parseInt(substr(hex, (i - 1) * 2, 2), 16))]

\* bigIntToBytes returning the minimal bytes whatever fixedLength is
bigIntToBytesUnpadded(value, fixedLength) ==
    IF BigLess(value, BigOf(0)) THEN Throw("negative bigint is not supported")
    ELSE LET h     == BigToString(value, 16)
             hex   == IF Len(h) % 2 = 1 THEN <<48>> \o h ELSE h
             bytes == HexToBytes(hex, Len(hex) \div 2)
         IN  IF fixedLength # undefined /\ Len(bytes) > fixedLength[1]
             THEN Throw("decoded bytes exceed fixed length")
             ELSE Ok(bytes)

bigIntToBytes(value, fixedLength) ==
    IF BigLess(value, BigOf(0)) THEN Throw("negative bigint is not supported")
    ELSE LET h     == BigToString(value, 16)
             hex   == IF Len(h) % 2 = 1 THEN <<48>> \o h ELSE h
             bytes == HexToBytes(hex, Len(hex) \div 2)
         IN  IF fixedLength # undefined
             THEN (IF Len(bytes) > fixedLength[1]
                   THEN Throw("decoded bytes exceed fixed length")
                   ELSE Ok(Rep(0, fixedLength[1] - Len(bytes)) \o bytes))
             ELSE Ok(bytes)

-----------------------------------------------------------------------------
(* The exported operations.                                                *)

encodeBytes(bytes) == encodeBigInt(bytesToBigInt(bytes), undefined)

decodeToBytes(text) ==
    LET d == decodeToBigInt(text)
    IN  IF ~d.ok THEN d ELSE bigIntToBytes(d.val, undefined)

encodeInt64(value) ==
    LET e == encodeBigInt(value, undefined)
    IN  IF ~e.ok THEN e ELSE leftPad(e.val, FIXED_LEN_INT64)

decodeInt64(text) ==
    IF Len(text) # FIXED_LEN_INT64 THEN Throw("Expected 11 chars for Base60 Int64")
    ELSE decodeToBigInt(text)

\* uuid.replace(/-/g, "")
RemoveHyphens(str) == SelectSeq(str, LAMBDA ch : ch # 45)

encodeUUID(uuid) ==
    LET hex == RemoveHyphens(uuid)
    IN  IF Len(hex) # 32 THEN Throw("invalid UUID")
        ELSE LET bytes == HexToBytes(hex, 16)
                 e     == encodeBigInt(bytesToBigInt(bytes), undefined)
             IN  IF ~e.ok THEN e ELSE leftPad(e.val, FIXED_LEN_UUID)

\* [...bytes].map((b) => b.toString(radix).padStart(width, "0")).join("")
RECURSIVE JoinBytes(_, _, _)
JoinBytes(bytes, radix, width) ==
    IF bytes = <<>> THEN <<>>
    ELSE padStart(NumToString(Head(bytes), radix), width, 48)
         \o JoinBytes(Tail(bytes), radix, width)

decodeUUID(text) ==
    LET d == decodeToBigInt(text)
    IN  IF ~d.ok THEN d
        ELSE LET b == bigIntToBytes(d.val, <<16>>)
             IN  IF ~b.ok THEN b
                 ELSE LET hex == JoinBytes(b.val, 16, 2)
                      IN  Ok(slice(hex, 0, 8) \o <<45>> \o slice(hex, 8, 12) \o <<45>>
                             \o slice(hex, 12, 16) \o <<45>> \o slice(hex, 16, 20)
                             \o <<45>> \o slice(hex, 20, Len(hex)))

\* String.prototype.toUpperCase on the characters the ULID check lets through
toUpperCase(str) == [i \in 1..Len(str) |-> IF str[i] >= 97 /\ str[i] <= 122
                                            THEN str[i] - 32 ELSE str[i]]

\* the class [0-9A-HJKMNP-TV-Z] under the i flag
UlidClass(ch) ==
    LET u == IF ch >= 97 /\ ch <= 122 THEN ch - 32 ELSE ch
    IN  \/ u >= 48 /\ u <= 57
        \/ u >= 65 /\ u <= 72
        \/ u \in {74, 75, 77, 78}
        \/ u >= 80 /\ u <= 84
        \/ u >= 86 /\ u <= 90

\* /^[0-9A-HJKMNP-TV-Z]{26}$/i.test(ulid)
UlidFormat(ulid) == Len(ulid) = 26 /\ \A i \in 1..Len(ulid) : UlidClass(ulid[i])

\* one turn of the for loop, s holding the characters left, the variable value
\* and whether the loop threw
ulidStep(s) ==
    IF s.rest = <<>> \/ s.thrown THEN s
    ELSE LET v == MapGet(crockford, Head(s.rest))
         IN  IF v = undefined THEN [s EXCEPT !.thrown = TRUE]
             ELSE [rest   |-> Tail(s.rest),
                   value  |-> BigMulAdd(s.value, 32, v[1]),
                   thrown |-> FALSE]

\* the for loop, a turn at a time
RECURSIVE ulidLoop(_)
ulidLoop(s) ==
    IF s.thrown THEN Throw("Invalid ULID char")
    ELSE IF s.rest = <<>> THEN Ok(s.value)
    ELSE ulidLoop(ulidStep(s))

encodeULID(ulid) ==
    IF ~UlidFormat(ulid) THEN Throw("Invalid ULID format")
    ELSE LET value == ulidLoop([rest |-> toUpperCase(ulid), value |-> BigOf(0), thrown |-> FALSE])
         IN  IF ~value.ok THEN value
             ELSE LET raw == encodeBigInt(value.val, undefined)
                  IN  IF ~raw.ok THEN raw ELSE leftPad(raw.val, FIXED_LEN_ULID)

decodeULID(text) ==
    IF Len(text) # 22 THEN Throw("Expected 22-char Base60 ULID")
    ELSE LET value == decodeToBigInt(text)
         IN  IF ~value.ok THEN value
             ELSE LET bytes == bigIntToBytes(value.val, <<16>>)
                  IN  IF ~bytes.ok THEN bytes
                      ELSE LET bits   == JoinBytes(bytes.val, 2, 8)
                               padded == padStart(bits, 130, 48)
                           IN  Ok([i \in 1..26 |->
                                     crockford[parseInt(slice(padded, (i - 1) * 5,
                                                              (i - 1) * 5 + 5), 2).num + 1]])

\* compareAsBigInt with the two results exchanged
compareAsBigIntSwapped(a, b) ==
    LET ai == decodeToBigInt(a)
        bi == decodeToBigInt(b)
    IN  IF ~ai.ok THEN ai
        ELSE IF ~bi.ok THEN bi
        ELSE IF BigLess(ai.val, bi.val) THEN Ok(1)
        ELSE IF BigLess(bi.val, ai.val) THEN Ok(0 - 1)
        ELSE Ok(0)

compareAsBigInt(a, b) ==
    LET ai == decodeToBigInt(a)
        bi == decodeToBigInt(b)
    IN  IF ~ai.ok THEN ai
        ELSE IF ~bi.ok THEN bi
        ELSE IF BigLess(ai.val, bi.val) THEN Ok(0 - 1)
        ELSE IF BigLess(bi.val, ai.val) THEN Ok(1)
        ELSE Ok(0)

isValidBase60(text) == \A i \in 1..Len(text) : \E j \in 1..Len(alphabet) : alphabet[j] = text[i]

-----------------------------------------------------------------------------
(* Inputs.                                                                 *)

\* b^k for b = 2 or 60, built fourteen bits or two digits at a time
RECURSIVE Pow(_, _)
Pow(b, k) ==
    IF b = 2 /\ k >= 14 THEN BigMulAdd(Pow(b, k - 14), 16384, 0)
    ELSE IF b = 60 /\ k >= 2 THEN BigMulAdd(Pow(b, k - 2), 3600, 0)
    ELSE BigOf(b ^ k)

\* b^k - 1
RECURSIVE PowLess1(_, _)
PowLess1(b, k) ==
    IF b = 2 /\ k >= 14 THEN BigMulAdd(PowLess1(b, k - 14), 16384, 16383)
    ELSE IF b = 60 /\ k >= 2 THEN BigMulAdd(PowLess1(b, k - 2), 3600, 3599)
    ELSE BigOf(b ^ k - 1)

BigValues ==
    {Pow(2, k) : k \in 0..MaxBits} \cup {PowLess1(2, k) : k \in 0..MaxBits}
    \cup {Pow(60, k) : k \in 0..MaxDigits} \cup {PowLess1(60, k) : k \in 0..MaxDigits}
    \cup {BigMulAdd(Pow(60, k), 1, 1) : k \in 0..MaxDigits}

NegValues == {BigNeg(BigOf(1)), BigNeg(BigOf(60)), BigNeg(Pow(2, 64))}

\* the values around each power of 60, where the length of the encoding changes
PadValues ==
    {Pow(60, k) : k \in 0..MaxPadDigits} \cup {PowLess1(60, k) : k \in 0..MaxPadDigits}
    \cup {BigMulAdd(Pow(60, k), 1, 1) : k \in 0..MaxPadDigits}

PadLengths == {<<w>> : w \in (0 - 1)..MaxPad}

Int64Values ==
    {Pow(2, k) : k \in 0..MaxInt64Bits} \cup {PowLess1(2, k) : k \in 0..MaxInt64Bits}
    \cup {BigOf(123456789), Pow(60, 11), PowLess1(60, 11)}

\* '0', '1', 'z' and '!'
TextChars == {48, 49, 122, 33}

\* "invalid!" and full-width digits, as in test/index.test.ts
Texts ==
    {Rep(a, n) : a \in TextChars, n \in 0..MaxTextLen}
    \cup {<<a>> \o Rep(b, n) : a \in TextChars, b \in TextChars, n \in 1..(MaxTextLen - 1)}
    \cup {<<105, 110, 118, 97, 108, 105, 100, 33>>, <<65296, 65297, 65298, 65299>>}

\* 0, 1, 100 and 255, and the array of test/index.test.ts
ByteValues == {0, 1, 100, 255}

RECURSIVE SeqsUpTo(_, _)
SeqsUpTo(S, n) ==
    IF n = 0 THEN {<<>>}
    ELSE LET shorter == SeqsUpTo(S, n - 1)
         IN  shorter \cup {<<x>> \o t : x \in S, t \in {u \in shorter : Len(u) = n - 1}}

ByteArrays == SeqsUpTo(ByteValues, MaxBytes) \cup {<<0, 1, 2, 100, 255>>}

\* '0', '9', 'A' and 'z'
CmpChars == {48, 57, 65, 122}

CmpTexts == SeqsUpTo(CmpChars, MaxCmpLen)

\* 32 characters in the groups 8-4-4-4-12
Hyphenate(hex) ==
    SubSeq(hex, 1, 8) \o <<45>> \o SubSeq(hex, 9, 12) \o <<45>> \o SubSeq(hex, 13, 16)
    \o <<45>> \o SubSeq(hex, 17, 20) \o <<45>> \o SubSeq(hex, 21, 32)

\* '0', '7', 'F', 'f', 'g' and ' '
UuidChars == {48, 55, 70, 102, 103, 32}

\* "550e8400-e29b-41d4-a716-446655440000" and "not-a-uuid" are those of the tests
UuidTexts ==
    {Hyphenate(Rep(a, i) \o Rep(b, 32 - i)) : a \in UuidChars, b \in UuidChars, i \in 0..32}
    \cup {Rep(102, n) : n \in 0..MaxIdLen}
    \cup {<<53, 53, 48, 101, 56, 52, 48, 48, 45, 101, 50, 57, 98, 45, 52, 49, 100, 52, 45,
            97, 55, 49, 54, 45, 52, 52, 54, 54, 53, 53, 52, 52, 48, 48, 48, 48>>,
          <<110, 111, 116, 45, 97, 45, 117, 117, 105, 100>>}

\* '0', '7', '8', 'Z', 'z' and 'u'
UlidChars == {48, 55, 56, 90, 122, 117}

\* "01H8J5N3Z9V8XK8E2X5PWSQ4M0" and "too-short" are those of the tests
UlidTexts ==
    {Rep(a, i) \o Rep(b, 26 - i) : a \in UlidChars, b \in UlidChars, i \in 0..26}
    \cup {Rep(48, n) : n \in 0..MaxIdLen}
    \cup {<<48, 49, 72, 56, 74, 53, 78, 51, 90, 57, 86, 56, 88, 75, 56, 69, 50, 88, 53,
            80, 87, 83, 81, 52, 77, 48>>,
          <<116, 111, 111, 45, 115, 104, 111, 114, 116>>}

-----------------------------------------------------------------------------
(* The calls.  A call is made when no call is in progress; a Back action   *)
(* hands the text an encode operation returned to the matching decode      *)
(* operation, as the tests do, and keeps the encoded value in src; Return  *)
(* drops the result.                                                       *)

Init ==
    /\ op = "none"
    /\ arg = <<>>
    /\ pad = undefined
    /\ ret = Ok(<<>>)
    /\ src = <<>>

EncodeBigInt ==
    \E v \in BigValues \cup NegValues :
        /\ op = "none"
        /\ op' = "encodeBigInt"
        /\ arg' = v
        /\ pad' = undefined
        /\ ret' = encodeBigInt(v, undefined)
        /\ src' = <<>>

EncodeBigIntPadded ==
    \E v \in PadValues \cup NegValues, p \in PadLengths :
        /\ op = "none"
        /\ op' = "encodeBigInt"
        /\ arg' = v
        /\ pad' = p
        /\ ret' = encodeBigInt(v, p)
        /\ src' = <<>>

DecodeToBigInt ==
    \E text \in Texts :
        /\ op = "none"
        /\ op' = "decodeToBigInt"
        /\ arg' = text
        /\ pad' = undefined
        /\ ret' = decodeToBigInt(text)
        /\ src' = <<>>

DecodeToBigIntBack ==
    /\ op = "encodeBigInt"
    /\ ret.ok
    /\ op' = "decodeToBigInt"
    /\ arg' = ret.val
    /\ ret' = decodeToBigInt(ret.val)
    /\ src' = <<arg>>
    /\ UNCHANGED pad

EncodeBytes ==
    \E bytes \in ByteArrays :
        /\ op = "none"
        /\ op' = "encodeBytes"
        /\ arg' = bytes
        /\ pad' = undefined
        /\ ret' = encodeBytes(bytes)
        /\ src' = <<>>

DecodeToBytes ==
    \E text \in Texts :
        /\ op = "none"
        /\ op' = "decodeToBytes"
        /\ arg' = text
        /\ pad' = undefined
        /\ ret' = decodeToBytes(text)
        /\ src' = <<>>

DecodeToBytesBack ==
    /\ op = "encodeBytes"
    /\ ret.ok
    /\ op' = "decodeToBytes"
    /\ arg' = ret.val
    /\ ret' = decodeToBytes(ret.val)
    /\ src' = <<arg>>
    /\ UNCHANGED pad

EncodeInt64 ==
    \E v \in Int64Values \cup NegValues :
        /\ op = "none"
        /\ op' = "encodeInt64"
        /\ arg' = v
        /\ pad' = undefined
        /\ ret' = encodeInt64(v)
        /\ src' = <<>>

DecodeInt64 ==
    \E text \in Texts :
        /\ op = "none"
        /\ op' = "decodeInt64"
        /\ arg' = text
        /\ pad' = undefined
        /\ ret' = decodeInt64(text)
        /\ src' = <<>>

DecodeInt64Back ==
    /\ op = "encodeInt64"
    /\ ret.ok
    /\ op' = "decodeInt64"
    /\ arg' = ret.val
    /\ ret' = decodeInt64(ret.val)
    /\ src' = <<arg>>
    /\ UNCHANGED pad

EncodeUUID ==
    \E uuid \in UuidTexts :
        /\ op = "none"
        /\ op' = "encodeUUID"
        /\ arg' = uuid
        /\ pad' = undefined
        /\ ret' = encodeUUID(uuid)
        /\ src' = <<>>

DecodeUUID ==
    \E text \in Texts :
        /\ op = "none"
        /\ op' = "decodeUUID"
        /\ arg' = text
        /\ pad' = undefined
        /\ ret' = decodeUUID(text)
        /\ src' = <<>>

DecodeUUIDBack ==
    /\ op = "encodeUUID"
    /\ ret.ok
    /\ op' = "decodeUUID"
    /\ arg' = ret.val
    /\ ret' = decodeUUID(ret.val)
    /\ src' = <<arg>>
    /\ UNCHANGED pad

EncodeULID ==
    \E ulid \in UlidTexts :
        /\ op = "none"
        /\ op' = "encodeULID"
        /\ arg' = ulid
        /\ pad' = undefined
        /\ ret' = encodeULID(ulid)
        /\ src' = <<>>

DecodeULID ==
    \E text \in Texts :
        /\ op = "none"
        /\ op' = "decodeULID"
        /\ arg' = text
        /\ pad' = undefined
        /\ ret' = decodeULID(text)
        /\ src' = <<>>

DecodeULIDBack ==
    /\ op = "encodeULID"
    /\ ret.ok
    /\ op' = "decodeULID"
    /\ arg' = ret.val
    /\ ret' = decodeULID(ret.val)
    /\ src' = <<arg>>
    /\ UNCHANGED pad

CompareAsBigInt ==
    \E a \in CmpTexts, b \in CmpTexts :
        /\ op = "none"
        /\ op' = "compareAsBigInt"
        /\ arg' = <<a, b>>
        /\ pad' = undefined
        /\ ret' = compareAsBigInt(a, b)
        /\ src' = <<>>

IsValidBase60 ==
    \E text \in Texts \cup CmpTexts :
        /\ op = "none"
        /\ op' = "isValidBase60"
        /\ arg' = text
        /\ pad' = undefined
        /\ ret' = Ok(isValidBase60(text))
        /\ src' = <<>>

Return ==
    /\ op # "none"
    /\ op' = "none"
    /\ arg' = <<>>
    /\ pad' = undefined
    /\ ret' = Ok(<<>>)
    /\ src' = <<>>

Next ==
    \/ EncodeBigInt
    \/ EncodeBigIntPadded
    \/ DecodeToBigInt
    \/ DecodeToBigIntBack
    \/ EncodeBytes
    \/ DecodeToBytes
    \/ DecodeToBytesBack
    \/ EncodeInt64
    \/ DecodeInt64
    \/ DecodeInt64Back
    \/ EncodeUUID
    \/ DecodeUUID
    \/ DecodeUUIDBack
    \/ EncodeULID
    \/ DecodeULID
    \/ DecodeULIDBack
    \/ CompareAsBigInt
    \/ IsValidBase60
    \/ Return

Spec == Init /\ [][Next]_vars

(* What the properties below are stated with.                              *)

TwoPow64 == Pow(2, 64)

IsHexChar(ch) ==
    \/ ch >= 48 /\ ch <= 57
    \/ ch >= 65 /\ ch <= 70
    \/ ch >= 97 /\ ch <= 102

ToLower(str) == [i \in 1..Len(str) |-> IF str[i] >= 65 /\ str[i] <= 90
                                       THEN str[i] + 32 ELSE str[i]]

ToUpper(str) == [i \in 1..Len(str) |-> IF str[i] >= 97 /\ str[i] <= 122
                                       THEN str[i] - 32 ELSE str[i]]

\* 36 characters: hex digits in the groups 8-4-4-4-12, hyphens between them
ValidUuidText(u) ==
    /\ Len(u) = 36
    /\ \A i \in 1..36 : IF i \in {9, 14, 19, 24} THEN u[i] = 45 ELSE IsHexChar(u[i])

\* 26 characters of the Crockford alphabet, in either case
ValidUlidText(u) ==
    /\ Len(u) = 26
    /\ \A i \in 1..26 : \E j \in 1..Len(crockford) : crockford[j] = ToUpper(u)[i]

\* 32 hex digits once the hyphens are removed
HexAfterHyphens(u) ==
    LET hex == SelectSeq(u, LAMBDA ch : ch # 45)
    IN  Len(hex) = 32 /\ \A i \in 1..Len(hex) : IsHexChar(hex[i])

RECURSIVE StripLeadingZeros(_)
StripLeadingZeros(b) ==
    IF b = <<>> THEN <<0>>
    ELSE IF Head(b) = 0 /\ Len(b) > 1 THEN StripLeadingZeros(Tail(b))
    ELSE b

\* -1, 0 or 1: the order of two strings of one length, character by character,
\* by character code
RECURSIVE LexSignByCode(_, _)
LexSignByCode(a, b) ==
    IF a = <<>> THEN 0
    ELSE IF Head(a) < Head(b) THEN -1
    ELSE IF Head(a) > Head(b) THEN 1
    ELSE LexSignByCode(Tail(a), Tail(b))

\* the same, by the position of each character in the alphabet
RECURSIVE LexSignByPosition(_, _)
LexSignByPosition(a, b) ==
    IF a = <<>> THEN 0
    ELSE IF charToValue(Head(a))[1] < charToValue(Head(b))[1] THEN -1
    ELSE IF charToValue(Head(a))[1] > charToValue(Head(b))[1] THEN 1
    ELSE LexSignByPosition(Tail(a), Tail(b))

\* the number a short string of alphabet symbols denotes in base 60
RECURSIVE NumberOf(_, _)
NumberOf(text, acc) ==
    IF text = <<>> THEN acc
    ELSE NumberOf(Tail(text), acc * 60 + charToValue(Head(text))[1])

NumericSign(a, b) ==
    LET d == NumberOf(a, 0) - NumberOf(b, 0)
    IN  IF d < 0 THEN -1 ELSE IF d > 0 THEN 1 ELSE 0

-----------------------------------------------------------------------------
(* The properties.                                                         *)

\* C1: for every non-negative integer v, encodeBigInt(v) without a pad length
\* succeeds and decodeToBigInt of its result returns exactly v.
C1_BigIntRoundTrip ==
    /\ (op = "encodeBigInt" /\ pad = undefined /\ ~arg.neg) => ret.ok
    /\ (op = "decodeToBigInt" /\ src # <<>> /\ pad = undefined /\ ~src[1].neg)
           => ret = Ok(src[1])

C1_Witness ==
    /\ op = "decodeToBigInt"
    /\ pad = undefined
    /\ src = <<PowLess1(2, 200)>>
    /\ Len(arg) = 34
    /\ ret = Ok(PowLess1(2, 200))

\* C2: for every 26-character text u of Crockford characters, in either case,
\* encodeULID(u) succeeds and decodeULID of its result returns u in uppercase.
C2_UlidRoundTrip ==
    /\ (op = "encodeULID" /\ ValidUlidText(arg)) => ret.ok
    /\ (op = "decodeULID" /\ src # <<>> /\ ValidUlidText(src[1]))
           => ret = Ok(ToUpper(src[1]))

\* C3: for every valid 36-character UUID text u, encodeUUID(u) returns 22
\* characters and decodeUUID of them returns u in lowercase.
C3_UuidRoundTrip ==
    /\ (op = "encodeUUID" /\ ValidUuidText(arg)) => (ret.ok /\ Len(ret.val) = 22)
    /\ (op = "decodeUUID" /\ src # <<>> /\ ValidUuidText(src[1]))
           => ret = Ok(ToLower(src[1]))

C3_Witness ==
    /\ op = "decodeUUID"
    /\ src # <<>>
    /\ ValidUuidText(src[1])
    /\ SubSeq(src[1], 1, 4) = <<48, 48, 48, 48>>
    /\ src[1][36] = 70
    /\ ret = Ok(ToLower(src[1]))

\* C4: encodeBigInt(v, w) of a non-negative v whose minimal representation m has
\* at most w characters returns w characters, zero-symbols followed by m, which
\* decode to v; when m is longer than w the call throws.
C4_Padding ==
    /\ (op = "encodeBigInt" /\ pad # undefined /\ ~arg.neg) =>
           LET m == encodeBigInt(arg, undefined).val
               w == pad[1]
           IN  IF Len(m) <= w
               THEN ret.ok /\ Len(ret.val) = w /\ ret.val = Rep(48, w - Len(m)) \o m
               ELSE ~ret.ok
    /\ (op = "decodeToBigInt" /\ src # <<>> /\ pad # undefined /\ ~src[1].neg)
           => ret = Ok(src[1])

C4_Witness ==
    /\ op = "decodeToBigInt"
    /\ pad = <<5>>
    /\ src = <<BigOf(3600)>>
    /\ arg = <<48, 48, 49, 48, 48>>
    /\ ret = Ok(BigOf(3600))

\* C5: decodeToBytes(encodeBytes(b)) is b without its leading zero bytes, and [0]
\* when b is empty or all zeros; it is b exactly when b starts with a non-zero
\* byte or is [0].
C5_BytesRoundTrip ==
    (op = "decodeToBytes" /\ src # <<>>) =>
        /\ ret = Ok(StripLeadingZeros(src[1]))
        /\ (ret.val = src[1]) <=> (src[1] = <<0>> \/ (src[1] # <<>> /\ src[1][1] # 0))

C5_Witness ==
    /\ op = "decodeToBytes"
    /\ src = << <<0, 1, 2, 100, 255>> >>
    /\ ret = Ok(<<1, 2, 100, 255>>)

\* C6: on two strings of alphabet symbols of one length compareAsBigInt returns
\* their lexicographic order, by alphabet position and by character code alike;
\* on strings of different lengths it returns the sign of the numeric difference.
C6_CompareIsLexicographic ==
    (op = "compareAsBigInt" /\ isValidBase60(arg[1]) /\ isValidBase60(arg[2])) =>
        IF Len(arg[1]) = Len(arg[2])
        THEN /\ ret = Ok(LexSignByPosition(arg[1], arg[2]))
             /\ ret = Ok(LexSignByCode(arg[1], arg[2]))
             /\ \A i \in 1..(Len(alphabet) - 1) : alphabet[i] < alphabet[i + 1]
        ELSE ret = Ok(NumericSign(arg[1], arg[2]))

C6_Witness ==
    /\ op = "compareAsBigInt"
    /\ arg = << <<57, 122>>, <<65, 48>> >>
    /\ ret = Ok(-1)

\* C7: encodeUUID throws for every input that is not exactly 32 hex digits once
\* its hyphens are removed.
C7_UuidFormatRejected ==
    (op = "encodeUUID" /\ ~HexAfterHyphens(arg)) => ~ret.ok

\* C8: decodeUUID and decodeULID throw for every text that is not 22 characters
\* long, and decodeInt64 for every text that is not 11 characters long.
C8_DecodeLengthChecked ==
    /\ (op = "decodeUUID" /\ Len(arg) # 22) => ~ret.ok
    /\ (op = "decodeULID" /\ Len(arg) # 22) => ~ret.ok
    /\ (op = "decodeInt64" /\ Len(arg) # 11) => ~ret.ok

\* C9: encodeBigInt and encodeInt64 throw for every negative value.
C9_NegativeRejected ==
    (op \in {"encodeBigInt", "encodeInt64"} /\ arg.neg) => ~ret.ok

\* C10: decodeInt64 never returns 2^64 or more for 11 alphabet symbols, and
\* encodeInt64 never returns a string for 2^64 or more.
C10_Int64Domain ==
    /\ (op = "decodeInt64" /\ Len(arg) = 11 /\ isValidBase60(arg) /\ ret.ok)
           => BigLess(ret.val, TwoPow64)
    /\ (op = "encodeInt64" /\ ~BigLess(arg, TwoPow64)) => ~ret.ok

=============================================================================
